---------------------------- MODULE Spec2Model ----------------------------
(***************************************************************************)
(* Model of the three metric scripts of the repository:                    *)
(*   Code_Generation/UC_10_Storage/programma.py  (comment counter + CLI)   *)
(*   Metrics/maxcc.py                            (complexity reporter)     *)
(* Text is modelled at character level: a line is a sequence of            *)
(* one-character strings, and every test the code makes on a line          *)
(* (substring, strip, startswith, split, count, regex search) is computed  *)
(* on those characters.  Indices i, multiline_start keep Python's 0-based  *)
(* values; sequence access is therefore lines[i + 1].                      *)
(***************************************************************************)
EXTENDS Integers, Sequences, FiniteSets

VARIABLES
    \* ---- programma.py : process inputs
    argc,            \* len(sys.argv)
    pathKind,        \* what sys.argv[1] names: "missing", "file" or "dir"
    decodable,       \* whether the file's bytes are valid UTF-8
    endsWithRs,      \* file_path.endswith('.rs')
    fileLines,       \* what file.readlines() yields for the file
    \* ---- programma.py : locals of count_comments_exclude_checks
    pc,              \* "main", "scan", "done", "exit", "crash"
    lines, i,
    simple_comments, doc_comments, multiline_blocks,
    total_lines, total_comments, comment_ratio,
    out,             \* console output, one record per print of an occurrence
    exitCode,        \* process exit status once the process has ended
    examined,        \* history of the values of i read at the top of the loop
    \* ---- maxcc.py : locals of analyze_file
    ccpc,            \* "start", "loop", "done"
    functions,       \* analysis.function_list
    k,               \* position of the for loop in functions (0-based)
    max_func, max_cc,
    ccOut            \* what the final report prints: <<name, cc>>

cmVars == <<argc, pathKind, decodable, endsWithRs, fileLines, pc, lines, i,
            simple_comments, doc_comments, multiline_blocks, total_lines,
            total_comments, comment_ratio, out, exitCode, examined>>
ccVars == <<ccpc, functions, k, max_func, max_cc, ccOut>>
vars == <<cmVars, ccVars>>

---------------------------------------------------------------------------
(* Bounds of the model *)

MaxLines == 3

MaxFuncs == 3

MaxCC == 3

---------------------------------------------------------------------------
(* Python string operations, on sequences of characters *)

\* str.isspace() characters that can occur in a line / regex \s
Whitespace == {" ", "\t", "\n"}

RECURSIVE rstrip(_)
rstrip(s) ==
    IF s = <<>> \/ s[Len(s)] \notin Whitespace THEN s
    ELSE rstrip(SubSeq(s, 1, Len(s) - 1))

RECURSIVE lstrip(_)
lstrip(s) ==
    IF s = <<>> \/ s[1] \notin Whitespace THEN s
    ELSE lstrip(SubSeq(s, 2, Len(s)))

strip(s) == lstrip(rstrip(s))

startswith(s, t) == Len(s) >= Len(t) /\ SubSeq(s, 1, Len(t)) = t

\* s.find(t) counted from position p (1-based); 0 when t does not occur
RECURSIVE FindFrom(_, _, _)
FindFrom(s, t, p) ==
    IF p + Len(t) - 1 > Len(s) THEN 0
    ELSE IF SubSeq(s, p, p + Len(t) - 1) = t THEN p
    ELSE FindFrom(s, t, p + 1)

\* t in s
Contains(s, t) == FindFrom(s, t, 1) # 0

\* s.split(t)[0]
SplitFirst(s, t) ==
    IF FindFrom(s, t, 1) = 0 THEN s ELSE SubSeq(s, 1, FindFrom(s, t, 1) - 1)

\* s.count(ch) for a single character
RECURSIVE count(_, _)
count(s, ch) ==
    IF s = <<>> THEN 0
    ELSE (IF s[1] = ch THEN 1 ELSE 0) + count(SubSeq(s, 2, Len(s)), ch)

\* ' '.join(parts)
RECURSIVE join(_)
join(parts) ==
    IF parts = <<>> THEN <<>>
    ELSE IF Len(parts) = 1 THEN parts[1]
    ELSE parts[1] \o <<" ">> \o join(SubSeq(parts, 2, Len(parts)))

\* case folding of re.IGNORECASE, on the letters of the pattern
lower(c) ==
    CASE c = "C" -> "c" [] c = "H" -> "h" [] c = "E" -> "e" [] c = "K" -> "k"
      [] OTHER -> c

\* the regex \s* : first position >= p that holds no whitespace
RECURSIVE SkipSpace(_, _)
SkipSpace(s, p) ==
    IF p <= Len(s) /\ s[p] \in Whitespace THEN SkipSpace(s, p + 1) ELSE p

\* the pattern ///\s*CHECK matched at position p, ignoring case
MatchCheckAt(s, p) ==
    /\ p + 2 <= Len(s)
    /\ SubSeq(s, p, p + 2) = <<"/", "/", "/">>
    /\ LET q == SkipSpace(s, p + 3) IN
        /\ q + 4 <= Len(s)
        /\ [n \in 1..5 |-> lower(s[q + n - 1])] = <<"c", "h", "e", "c", "k">>

---------------------------------------------------------------------------
(* Inputs: the text files the counter is run on *)

Slash2 == <<"/", "/">>
Slash3 == <<"/", "/", "/">>
BlockOpen == <<"/", "*">>
BlockClose == <<"*", "/">>
Quote == <<"\"">>

\* line contents (without the line terminator) the files are made of
LinePool ==
    { <<>>,                                             \* empty line
      <<"x">>,                                          \* code
      Slash3 \o <<"C", "H", "E", "C", "K">>,            \* ///CHECK
      <<"x", " ">> \o Slash3 \o <<" ", "c", "H", "e", "c", "k">> \o BlockOpen,
                                                        \* x /// cHeck/*
      <<" ">> \o Slash3 \o <<"d">>,                     \*  ///d
      Slash3 \o <<"c", "h", "e">>,                      \* ///che
      <<"x", " ">> \o Slash2 \o <<"c">>,                \* x //c
      <<" ">> \o Slash2 \o <<"c", " ">>,                \*  //c
      Quote \o Slash2 \o Quote,                         \* "//"
      Quote \o Quote \o Slash2 \o Quote,                \* ""//"
      BlockOpen \o <<"b">> \o BlockClose,               \* /*b*/
      BlockOpen \o <<"b">>,                             \* /*b
      <<"b">> \o BlockClose \o Slash2,                  \* b*///
      Slash3 \o <<"*">> }                               \* ///*

\* file.readlines(): every line but the last ends with "\n"; the last one
\* ends with "\n" unless the file does not end with a line terminator
ReadLines(contents, finalNewline) ==
    [n \in 1..Len(contents) |->
        IF n < Len(contents) \/ finalNewline
        THEN contents[n] \o <<"\n">> ELSE contents[n]]

Files ==
    { ReadLines(c, nl) :
        <<c, nl>> \in { <<c, nl>> \in (UNION { [1..n -> LinePool] : n \in 0..MaxLines })
                                      \X BOOLEAN :
                        nl \/ (Len(c) > 0 /\ c[Len(c)] # <<>>) } }

---------------------------------------------------------------------------
(* programma.py : count_comments_exclude_checks and is_comment_in_string *)

\* re.search(r'///\s*CHECK', line, re.IGNORECASE)
re_search_check(line) == \E p \in 1..Len(line) : MatchCheckAt(line, p)

\* faulty variant: counts the quotes of the whole line
is_comment_in_string_AnyQuote(line) == count(line, "\"") % 2 = 1

\* is_comment_in_string: the // lies inside a string literal
is_comment_in_string(line) ==
    LET before_comment == SplitFirst(line, Slash2)
        quote_count == count(before_comment, "\"")
    IN  quote_count % 2 = 1

\* faulty variant: the block test placed before the check test
Branch_BlockFirst(line) ==
    IF Contains(line, BlockOpen) THEN "multiline"
    ELSE IF re_search_check(line) THEN "check"
    ELSE IF startswith(strip(line), Slash3) /\ ~re_search_check(line) THEN "doc"
    ELSE IF Contains(line, Slash2) /\ ~startswith(strip(line), Slash3) THEN "simple"
    ELSE "none"

\* faulty variant: the doc test made on the untrimmed line
Branch_NoStrip(line) ==
    IF re_search_check(line) THEN "check"
    ELSE IF Contains(line, BlockOpen) THEN "multiline"
    ELSE IF startswith(line, Slash3) /\ ~re_search_check(line) THEN "doc"
    ELSE IF Contains(line, Slash2) /\ ~startswith(strip(line), Slash3) THEN "simple"
    ELSE "none"

\* the if / elif chain of the loop body: which branch a line takes
Branch(line) ==
    IF re_search_check(line) THEN "check"
    ELSE IF Contains(line, BlockOpen) THEN "multiline"
    ELSE IF startswith(strip(line), Slash3) /\ ~re_search_check(line) THEN "doc"
    ELSE IF Contains(line, Slash2) /\ ~startswith(strip(line), Slash3) THEN "simple"
    ELSE "none"

\* faulty variant: the inner loop consumes nothing
InnerWhile_NoLoop(ls, j) == j

\* faulty variant: an unterminated block gives its lines back to the scan
InnerWhile_Rescan(ls, j) ==
    IF \E n \in (j + 1)..Len(ls) : Contains(ls[n], BlockClose)
    THEN CHOOSE n \in j..(Len(ls) - 1) :
            /\ Contains(ls[n + 1], BlockClose)
            /\ \A m \in j..(n - 1) : ~Contains(ls[m + 1], BlockClose)
    ELSE j - 1

\* the inner while loop entered with i = j: the value of i when it ends
RECURSIVE InnerWhile(_, _)
InnerWhile(ls, j) ==
    IF j < Len(ls) /\ ~Contains(ls[j + 1], BlockClose)
    THEN InnerWhile(ls, j + 1)
    ELSE j

\* the test after the inner loop: a closing line was found at index e
BlockClosed(ls, e) == e < Len(ls) /\ Contains(ls[e + 1], BlockClose)

\* multiline_content once the closing line at index e has been appended
MultilineContent(ls, s, e) ==
    [n \in 1..(e - s + 1) |-> rstrip(ls[s + n])]

\* faulty variant: the blocks left out of the total
TotalComments_NoBlocks == simple_comments + doc_comments

\* total_comments
TotalComments == simple_comments + doc_comments + multiline_blocks

\* total_comments / total_lines, a float: kept as the exact fraction
CommentRatio(total, nlines) ==
    IF nlines > 0 THEN [num |-> total, den |-> nlines]
    ELSE [num |-> 0, den |-> 1]

\* one printed line: its label, its 1-based line number, its text
Line(tag, row, text) == [tag |-> tag, row |-> row, text |-> text]

\* the line the loop is looking at: lines[i].rstrip()
Examining == pc = "scan" /\ i < Len(lines)
line == rstrip(lines[i + 1])

CmStay == UNCHANGED <<argc, pathKind, decodable, endsWithRs, fileLines, lines,
                      total_lines>>

\* a ///check line: printed as excluded, nothing counted
ScanCheck ==
    /\ Examining
    /\ Branch(line) = "check"
    /\ out' = Append(out, Line("ESCLUSO", i + 1, line))
    /\ i' = i + 1
    /\ examined' = examined \cup {i}
    /\ UNCHANGED <<pc, simple_comments, doc_comments, multiline_blocks,
                   total_comments, comment_ratio, exitCode>>
    /\ CmStay /\ UNCHANGED ccVars

\* a line holding the block-open token: consume lines up to the closing one
ScanMultiline ==
    /\ Examining
    /\ Branch(line) = "multiline"
    /\ LET multiline_start == i
           e == InnerWhile(lines, i + 1)
       IN  /\ IF BlockClosed(lines, e)
              THEN /\ multiline_blocks' = multiline_blocks + 1
                   /\ out' = Append(out,
                        Line("MULTILINEA", multiline_start + 1,
                             join(MultilineContent(lines, multiline_start, e))))
              ELSE UNCHANGED <<multiline_blocks, out>>
           /\ i' = e + 1
    /\ examined' = examined \cup {i}
    /\ UNCHANGED <<pc, simple_comments, doc_comments, total_comments,
                   comment_ratio, exitCode>>
    /\ CmStay /\ UNCHANGED ccVars

\* a /// line that is not a check
ScanDoc ==
    /\ Examining
    /\ Branch(line) = "doc"
    /\ doc_comments' = doc_comments + 1
    /\ out' = Append(out, Line("DOC", i + 1, line))
    /\ i' = i + 1
    /\ examined' = examined \cup {i}
    /\ UNCHANGED <<pc, simple_comments, multiline_blocks, total_comments,
                   comment_ratio, exitCode>>
    /\ CmStay /\ UNCHANGED ccVars

\* a line holding // : counted unless the // is found to be inside a string
ScanSimple ==
    /\ Examining
    /\ Branch(line) = "simple"
    /\ IF ~is_comment_in_string(line)
       THEN /\ simple_comments' = simple_comments + 1
            /\ out' = Append(out,
                 Line(IF startswith(strip(line), Slash2) THEN "SEMPLICE" ELSE "INLINE",
                      i + 1, line))
       ELSE UNCHANGED <<simple_comments, out>>
    /\ i' = i + 1
    /\ examined' = examined \cup {i}
    /\ UNCHANGED <<pc, doc_comments, multiline_blocks, total_comments,
                   comment_ratio, exitCode>>
    /\ CmStay /\ UNCHANGED ccVars

\* any other line
ScanCode ==
    /\ Examining
    /\ Branch(line) = "none"
    /\ i' = i + 1
    /\ examined' = examined \cup {i}
    /\ UNCHANGED <<pc, simple_comments, doc_comments, multiline_blocks,
                   total_comments, comment_ratio, out, exitCode>>
    /\ CmStay /\ UNCHANGED ccVars

\* the loop has ended: totals, ratio, return to main, which returns
Finish ==
    /\ pc = "scan"
    /\ ~(i < Len(lines))
    /\ total_comments' = TotalComments
    /\ comment_ratio' = CommentRatio(TotalComments, total_lines)
    /\ pc' = "done"
    /\ exitCode' = 0
    /\ UNCHANGED <<i, simple_comments, doc_comments, multiline_blocks, out,
                   examined>>
    /\ CmStay /\ UNCHANGED ccVars

---------------------------------------------------------------------------
(* programma.py : main *)

CmLocalsStay == UNCHANGED <<lines, i, simple_comments, doc_comments,
                            multiline_blocks, total_lines, total_comments,
                            comment_ratio, examined>>
CmInputsStay == UNCHANGED <<argc, pathKind, decodable, endsWithRs, fileLines>>

\* len(sys.argv) != 2
MainUsage ==
    /\ pc = "main"
    /\ argc # 2
    /\ out' = Append(out, Line("USAGE", 0, <<>>))
    /\ pc' = "exit"
    /\ exitCode' = 1
    /\ CmLocalsStay /\ CmInputsStay /\ UNCHANGED ccVars

\* not os.path.exists(file_path)
MainNotFound ==
    /\ pc = "main"
    /\ argc = 2
    /\ pathKind = "missing"
    /\ out' = Append(out, Line("ERRORE", 0, <<>>))
    /\ pc' = "exit"
    /\ exitCode' = 1
    /\ CmLocalsStay /\ CmInputsStay /\ UNCHANGED ccVars

\* what main has printed when it calls the counter
Advisory == IF endsWithRs THEN out ELSE Append(out, Line("AVVISO", 0, <<>>))

\* the path exists but open() or readlines() raises (a directory, bytes that
\* are not UTF-8): the exception is not caught and ends the process
MainReadFails ==
    /\ pc = "main"
    /\ argc = 2
    /\ pathKind # "missing"
    /\ pathKind = "dir" \/ ~decodable
    /\ out' = Advisory
    /\ pc' = "crash"
    /\ exitCode' = 1
    /\ CmLocalsStay /\ CmInputsStay /\ UNCHANGED ccVars

\* the file is read and the scan starts
MainScan ==
    /\ pc = "main"
    /\ argc = 2
    /\ pathKind = "file" /\ decodable
    /\ lines' = fileLines
    /\ simple_comments' = 0
    /\ doc_comments' = 0
    /\ multiline_blocks' = 0
    /\ total_lines' = Len(fileLines)
    /\ out' = Append(Advisory, Line("COMMENTI TROVATI", 0, <<>>))
    /\ i' = 0
    /\ pc' = "scan"
    /\ UNCHANGED <<total_comments, comment_ratio, exitCode, examined>>
    /\ CmInputsStay /\ UNCHANGED ccVars

CmInit ==
    /\ pc = "main"
    /\ \/ /\ argc \in {1, 3}
          /\ pathKind = "missing" /\ decodable = TRUE /\ endsWithRs = TRUE
          /\ fileLines = <<>>
       \/ /\ argc = 2
          /\ endsWithRs \in BOOLEAN
          /\ \/ pathKind \in {"missing", "dir"} /\ decodable = TRUE /\ fileLines = <<>>
             \/ pathKind = "file" /\ decodable = FALSE /\ fileLines = <<>>
             \/ pathKind = "file" /\ decodable = TRUE /\ fileLines \in Files
    /\ lines = <<>> /\ i = 0
    /\ simple_comments = 0 /\ doc_comments = 0 /\ multiline_blocks = 0
    /\ total_lines = 0 /\ total_comments = 0
    /\ comment_ratio = [num |-> 0, den |-> 1]
    /\ out = <<>>
    /\ exitCode = -1
    /\ examined = {}

\* the counter is not running
CmIdle ==
    /\ pc = "idle" /\ argc = 1 /\ pathKind = "missing" /\ decodable = TRUE
    /\ endsWithRs = TRUE /\ fileLines = <<>>
    /\ lines = <<>> /\ i = 0
    /\ simple_comments = 0 /\ doc_comments = 0 /\ multiline_blocks = 0
    /\ total_lines = 0 /\ total_comments = 0
    /\ comment_ratio = [num |-> 0, den |-> 1]
    /\ out = <<>> /\ exitCode = -1 /\ examined = {}

---------------------------------------------------------------------------
(* maxcc.py : analyze_file *)

FuncNames == {"f", "g", "h"}

\* what lizard.analyze_file returns: a cyclomatic complexity is at least 1
FunctionLists ==
    UNION { [1..n -> [name : FuncNames, cyclomatic_complexity : 1..MaxCC]] :
            n \in 0..MaxFuncs }

\* faulty variant: >= keeps the last maximum instead of the first
IsNewMax_NotStrict(cc, best) == cc >= best

\* the test that replaces the running maximum
IsNewMax(cc, best) == cc > best

\* if not functions: print and return
CCNoFunctions ==
    /\ ccpc = "start"
    /\ functions = <<>>
    /\ ccpc' = "done"
    /\ UNCHANGED <<functions, k, max_func, max_cc, ccOut>>
    /\ UNCHANGED cmVars

CCBegin ==
    /\ ccpc = "start"
    /\ functions # <<>>
    /\ max_func' = "None"
    /\ max_cc' = 0
    /\ k' = 0
    /\ ccpc' = "loop"
    /\ UNCHANGED <<functions, ccOut>>
    /\ UNCHANGED cmVars

\* one iteration of: for func in functions
CCLoop ==
    /\ ccpc = "loop"
    /\ k < Len(functions)
    /\ LET func == functions[k + 1]
           name == func.name
           cc == func.cyclomatic_complexity
       IN  IF IsNewMax(cc, max_cc)
           THEN max_cc' = cc /\ max_func' = name
           ELSE UNCHANGED <<max_cc, max_func>>
    /\ k' = k + 1
    /\ UNCHANGED <<ccpc, functions, ccOut>>
    /\ UNCHANGED cmVars

\* the two report lines after the loop
CCReport ==
    /\ ccpc = "loop"
    /\ k = Len(functions)
    /\ ccOut' = <<max_func, max_cc>>
    /\ ccpc' = "done"
    /\ UNCHANGED <<functions, k, max_func, max_cc>>
    /\ UNCHANGED cmVars

CcInit ==
    /\ ccpc = "start"
    /\ functions \in FunctionLists
    /\ k = 0 /\ max_func = "None" /\ max_cc = 0 /\ ccOut = <<>>

\* the reporter is not running
CcIdle ==
    /\ ccpc = "idle" /\ functions = <<>>
    /\ k = 0 /\ max_func = "None" /\ max_cc = 0 /\ ccOut = <<>>

---------------------------------------------------------------------------
(* Specifications: one per script *)

Init == CmInit /\ CcIdle

Next ==
    \/ MainUsage \/ MainNotFound \/ MainReadFails \/ MainScan
    \/ ScanCheck \/ ScanMultiline \/ ScanDoc \/ ScanSimple \/ ScanCode
    \/ Finish

Spec == Init /\ [][Next]_vars

InitCC == CcInit /\ CmIdle

NextCC == CCNoFunctions \/ CCBegin \/ CCLoop \/ CCReport

SpecCC == InitCC /\ [][NextCC]_vars

---------------------------------------------------------------------------
(* Vocabulary of the properties, stated on the characters of a line         *)
(* independently of the way the code tests them.  Line numbers are the      *)
(* 0-based indices of the scan.                                             *)

HasToken(s, t) ==
    \E p \in 1..(Len(s) - Len(t) + 1) : \A n \in 1..Len(t) : s[p + n - 1] = t[n]

\* position of the first occurrence of t in s
FirstToken(s, t) ==
    CHOOSE p \in 1..(Len(s) - Len(t) + 1) :
        /\ \A n \in 1..Len(t) : s[p + n - 1] = t[n]
        /\ \A r \in 1..(p - 1) : \E n \in 1..Len(t) : s[r + n - 1] # t[n]

\* the line, leading whitespace dropped, starts with t
TrimmedStartsWith(s, t) ==
    \E p \in 1..(Len(s) - Len(t) + 1) :
        /\ \A r \in 1..(p - 1) : s[r] \in Whitespace
        /\ \A n \in 1..Len(t) : s[p + n - 1] = t[n]

\* ///, optional whitespace, the word CHECK in any letter case
IsMarker(s) ==
    \E p \in 1..Len(s), q \in 1..Len(s) :
        /\ p + 3 <= q /\ q + 4 <= Len(s)
        /\ \A n \in 0..2 : s[p + n] = "/"
        /\ \A r \in (p + 3)..(q - 1) : s[r] \in Whitespace
        /\ s[q] \in {"c", "C"} /\ s[q + 1] \in {"h", "H"} /\ s[q + 2] \in {"e", "E"}
        /\ s[q + 3] \in {"c", "C"} /\ s[q + 4] \in {"k", "K"}

QuotesBeforeComment(s) ==
    Cardinality({ r \in 1..(FirstToken(s, Slash2) - 1) : s[r] = "\"" })

\* the line at index n opens a block when the scan examines it
OpensBlock(n) == ~IsMarker(lines[n + 1]) /\ HasToken(lines[n + 1], BlockOpen)

\* indices after n whose line holds the block-close token
ClosesAfter(n) == { c \in (n + 1)..(Len(lines) - 1) : HasToken(lines[c + 1], BlockClose) }

\* indices from n on (n included) whose line holds the block-close token
ClosesFrom(n) == { c \in n..(Len(lines) - 1) : HasToken(lines[c + 1], BlockClose) }

Least(S) == CHOOSE c \in S : \A d \in S : c <= d

Counted(o) ==
    SelectSeq(o, LAMBDA r : r.tag \in {"MULTILINEA", "DOC", "SEMPLICE", "INLINE"})

Tagged(o, tags) == Len(SelectSeq(o, LAMBDA r : r.tag \in tags))

CountersUnchanged ==
    /\ simple_comments' = simple_comments
    /\ doc_comments' = doc_comments
    /\ multiline_blocks' = multiline_blocks

---------------------------------------------------------------------------
(* C1 *)

\* C1: the returned ratio is the percentage of comments per line: with
\* totalLines > 0, ratio * totalLines = totalComments * 100; with
\* totalLines = 0 the ratio is 0.
C1_RatioIsPercent ==
    pc = "done" =>
        /\ total_lines > 0 =>
             comment_ratio.num * total_lines = total_comments * 100 * comment_ratio.den
        /\ total_lines = 0 => comment_ratio.num = 0

---------------------------------------------------------------------------
(* C2 *)

\* C2: when the scan examines a non-marker line at index s holding the
\* block-open token and some line at index c >= s (the opening line
\* included) holds the block-close token, one Block occurrence covering
\* s..c for the first such c is emitted, blockCount grows by one and the scan
\* resumes at c + 1.
C2_BlockSpanFromOpeningLine ==
    [][ (Examining /\ OpensBlock(i) /\ ClosesFrom(i) # {}) =>
          LET c == Least(ClosesFrom(i)) IN
            /\ multiline_blocks' = multiline_blocks + 1
            /\ simple_comments' = simple_comments /\ doc_comments' = doc_comments
            /\ i' = c + 1
            /\ out' = Append(out, Line("MULTILINEA", i + 1,
                          join([n \in 1..(c - i + 1) |-> rstrip(lines[i + n])]))) ]_vars

---------------------------------------------------------------------------
(* C3 *)

\* C3: when a block is opened and no later line holds the block-close token,
\* that step emits nothing and changes no counter, the scan is then past the
\* last line, and the only step left is the normal end of the scan (exit
\* status 0), which counts none of the consumed lines.
C3_UnterminatedBlock ==
    [][ /\ (Examining /\ OpensBlock(i) /\ ClosesAfter(i) = {}) =>
              /\ pc' = "scan" /\ i' >= Len(lines)
              /\ CountersUnchanged /\ out' = out
        /\ (pc = "scan" /\ i >= Len(lines)) =>
              /\ pc' = "done" /\ exitCode' = 0
              /\ CountersUnchanged /\ out' = out ]_vars

\* an unterminated block that swallowed a line holding // has been scanned
\* and the run has ended normally
C3_Witness ==
    /\ pc = "done" /\ exitCode = 0
    /\ \E s \in examined :
        /\ OpensBlock(s) /\ ClosesAfter(s) = {}
        /\ \E n \in (s + 1)..(Len(lines) - 1) : HasToken(lines[n + 1], Slash2)
        /\ \A n \in (s + 1)..(Len(lines) - 1) : n \notin examined

---------------------------------------------------------------------------
(* C4 *)

\* C4: a step that examines a marker line changes no counter, emits no
\* counted occurrence and advances the scan by exactly one line, also when
\* the line holds /* or //.
C4_MarkerSkipped ==
    [][ (Examining /\ IsMarker(lines[i + 1])) =>
          /\ CountersUnchanged
          /\ Counted(out') = Counted(out)
          /\ i' = i + 1 ]_vars

\* a marker line that also holds /* has been examined and skipped, and the
\* line after it has been examined in its turn
C4_Witness ==
    \E s \in examined :
        /\ IsMarker(lines[s + 1]) /\ HasToken(lines[s + 1], BlockOpen)
        /\ HasToken(lines[s + 1], Slash2)
        /\ s + 1 \in examined
        /\ \E r \in 1..Len(out) : out[r].tag = "ESCLUSO" /\ out[r].row = s + 1

---------------------------------------------------------------------------
(* C5 *)

SimpleCandidate(s) ==
    /\ ~IsMarker(s) /\ ~HasToken(s, BlockOpen)
    /\ HasToken(s, Slash2) /\ ~TrimmedStartsWith(s, Slash3)

\* C5: for an examined line that is no marker, holds no /*, holds // and
\* whose trimmed form does not start with ///: simpleCount grows by one
\* exactly when the number of double quotes before the first // is even; it
\* is then tagged leading (SEMPLICE) when the trimmed line starts with //,
\* inline (INLINE) otherwise; with an odd number nothing changes.  The scan
\* advances by one line in both cases.
C5_SimpleByQuoteParity ==
    [][ (Examining /\ SimpleCandidate(lines[i + 1])) =>
          LET s == lines[i + 1]
              even == QuotesBeforeComment(s) % 2 = 0
          IN  /\ simple_comments' = simple_comments + (IF even THEN 1 ELSE 0)
              /\ doc_comments' = doc_comments
              /\ multiline_blocks' = multiline_blocks
              /\ i' = i + 1
              /\ even => /\ Len(out') = Len(out) + 1
                         /\ SubSeq(out', 1, Len(out)) = out
                         /\ out'[Len(out')].row = i + 1
                         /\ out'[Len(out')].tag =
                              (IF TrimmedStartsWith(s, Slash2) THEN "SEMPLICE" ELSE "INLINE")
              /\ ~even => out' = out ]_vars

\* a leading comment, an inline comment behind a closed string and a //
\* inside an open string have all been examined
C5_Witness ==
    /\ Tagged(out, {"SEMPLICE"}) > 0
    /\ \E r \in 1..Len(out) :
          out[r].tag = "INLINE" /\ QuotesBeforeComment(lines[out[r].row]) = 2
    /\ \E s \in examined :
          SimpleCandidate(lines[s + 1]) /\ QuotesBeforeComment(lines[s + 1]) % 2 = 1

---------------------------------------------------------------------------
(* C6 *)

\* last line consumed by the block opened at index s
SpanEnd(s) == IF ClosesAfter(s) = {} THEN Len(lines) - 1 ELSE Least(ClosesAfter(s))

NoConsumedLineExamined ==
    \A s \in examined :
        OpensBlock(s) => \A n \in (s + 1)..SpanEnd(s) : n \notin examined

\* C6: each scan step increments at most one of the three counters, by
\* exactly 1, and moves on to a later line; a line consumed as part of a
\* block span (after the opening line, up to and including the closing line)
\* is never examined.
C6_OneContributionPerLine ==
    [][ /\ simple_comments' - simple_comments \in {0, 1}
        /\ doc_comments' - doc_comments \in {0, 1}
        /\ multiline_blocks' - multiline_blocks \in {0, 1}
        /\ (simple_comments' + doc_comments' + multiline_blocks')
             - (simple_comments + doc_comments + multiline_blocks) \in {0, 1}
        /\ Examining => i' > i
        /\ NoConsumedLineExamined' ]_vars

\* a closed block whose span holds a line with // was consumed and the line
\* after the span has been examined
C6_Witness ==
    \E s \in examined :
        /\ OpensBlock(s) /\ ClosesAfter(s) # {}
        /\ \E n \in (s + 1)..SpanEnd(s) : HasToken(lines[n + 1], Slash2)
        /\ SpanEnd(s) + 1 \in examined
        /\ multiline_blocks = 1

---------------------------------------------------------------------------
(* C7 *)

\* C7: for an examined line that is no marker, holds no /* and whose trimmed
\* form starts with ///: docCount grows by one, simpleCount and blockCount
\* do not change and the scan advances by one line; a line that opens a
\* block is counted neither as Doc nor as Simple (block before doc and
\* simple).
C7_DocCounted ==
    [][ /\ (Examining /\ ~IsMarker(lines[i + 1]) /\ ~HasToken(lines[i + 1], BlockOpen)
                      /\ TrimmedStartsWith(lines[i + 1], Slash3)) =>
              /\ doc_comments' = doc_comments + 1
              /\ simple_comments' = simple_comments
              /\ multiline_blocks' = multiline_blocks
              /\ i' = i + 1
              /\ out' = Append(out, Line("DOC", i + 1, rstrip(lines[i + 1])))
        /\ (Examining /\ OpensBlock(i)) =>
              /\ doc_comments' = doc_comments
              /\ simple_comments' = simple_comments ]_vars

\* an indented /// line has been counted as Doc, and a /// line that opens
\* a block has been examined
C7_Witness ==
    /\ \E r \in 1..Len(out) :
          /\ out[r].tag = "DOC"
          /\ lines[out[r].row][1] = " "
    /\ doc_comments = 1 /\ simple_comments = 0
    /\ \E s \in examined :
          OpensBlock(s) /\ TrimmedStartsWith(lines[s + 1], Slash3)

---------------------------------------------------------------------------
(* C8 *)

\* C8: the three counters are the numbers of Simple, Doc and Block
\* occurrences emitted so far, and the reported total is their sum.
C8_TotalIsSum ==
    /\ simple_comments = Tagged(out, {"SEMPLICE", "INLINE"})
    /\ doc_comments = Tagged(out, {"DOC"})
    /\ multiline_blocks = Tagged(out, {"MULTILINEA"})
    /\ pc = "done" =>
         total_comments = Tagged(out, {"SEMPLICE", "INLINE"}) + Tagged(out, {"DOC"})
                            + Tagged(out, {"MULTILINEA"})

\* a finished scan that counted a block and a line comment
C8_Witness ==
    /\ pc = "done"
    /\ multiline_blocks = 1
    /\ simple_comments + doc_comments = 1
    /\ total_comments = 2

---------------------------------------------------------------------------
(* C9 *)

Scores == { functions[n].cyclomatic_complexity : n \in 1..Len(functions) }
MaxScore == CHOOSE m \in Scores : \A c \in Scores : c <= m
FirstMax ==
    CHOOSE n \in 1..Len(functions) :
        /\ functions[n].cyclomatic_complexity = MaxScore
        /\ \A r \in 1..(n - 1) : functions[r].cyclomatic_complexity # MaxScore

\* C9: for a non-empty function list, the entry reported as most complex is
\* the first entry in list order whose score is the maximum of the list,
\* and the reported maximum is that maximum.
C9_FirstMaximum ==
    (ccpc = "done" /\ functions # <<>>) =>
        ccOut = <<functions[FirstMax].name, MaxScore>>

\* a report over a list whose maximum is reached twice, by entries of
\* different names, the first of them not at the head of the list
C9_Witness ==
    /\ ccpc = "done" /\ functions # <<>>
    /\ FirstMax > 1
    /\ \E n \in (FirstMax + 1)..Len(functions) :
          /\ functions[n].cyclomatic_complexity = MaxScore
          /\ functions[n].name # functions[FirstMax].name

---------------------------------------------------------------------------
(* C10 *)

Scanned == lines # <<>> \/ examined # {} \/ Counted(out) # <<>>

\* C10: the process exits with code 1 without scanning when the argument
\* count is not exactly one path or when the path does not exist, and in
\* every other case proceeds to the scan and does not exit non-zero.
C10_ExitCodes ==
    pc # "main" =>
        /\ argc # 2 => (exitCode = 1 /\ ~Scanned)
        /\ (argc = 2 /\ pathKind = "missing") => (exitCode = 1 /\ ~Scanned)
        /\ (argc = 2 /\ pathKind # "missing") =>
              (pc \in {"scan", "done"} /\ exitCode \in {-1, 0})

====
